---------------------------- MODULE Spec2Model ----------------------------
(***************************************************************************)
(* A model of these parts of the repository:                               *)
(*                                                                         *)
(*   - SQLFile.Parse (package fs): the single-pass statement splitter.     *)
(*     One action per branch of the body of its scanning loop, and one     *)
(*     for the code after the loop.  Offsets are the 0-based byte offsets  *)
(*     of the Go code; a character is a one-character string.  The inputs  *)
(*     are ASCII, so a rune is a byte and range's offsets advance by one.  *)
(*                                                                         *)
(*   - tengo.Index (Equivalent, RedundantTo, Definition and their          *)
(*     helpers): pure functions, applied by actions to one, two or three   *)
(*     indexes of one table.                                               *)
(*                                                                         *)
(*   - longestIncreasingSubsequence: one action per branch of its loop.    *)
(*                                                                         *)
(*   - dupeIndexChecker (package linter): one action for the whole check   *)
(*     of a table.                                                         *)
(***************************************************************************)
EXTENDS Integers, Sequences, FiniteSets, TLC

VARIABLES
    \* ---- SQLFile.Parse
    contents,       \* the file's text (contents := string(byteContents))
    n,              \* offset of the next character the loop reads
    result,         \* []Statement returned
    stmt,           \* the "current" (not yet appended) statement
    inQuote,        \* the open quote character, NoQuote when none
    inRelevant,
    inLineComment,
    inCComment,
    escapeNext,
    startStatement,
    charNo,
    lineNo,
    err,            \* the error Parse returns
    pc,             \* "scan" in the loop, "done" once Parse has returned
    startOf,        \* history: startOf[k] is the offset at which the slice
                    \* result[k].Text was taken from contents
    escaped,        \* history: the offsets the loop skipped in the escape
                    \* state that a backslash outside any quote had set
    openedAt,       \* history: the offset of the `*` that opened the block
                    \* comment opened last, -1 when none was opened
    closedAt,       \* history: the offset of the `/` that closed the block
                    \* comment closed last, -1 when none was closed
    \* ---- tengo.Index
    idx,            \* the receiver of the comparison
    other,          \* its argument
    ret,            \* the last call and the value it returned
    third,          \* a third index of the table, for chains of comparisons
    \* ---- longestIncreasingSubsequence
    lisInput,       \* input
    candidateLists,
    lisI,           \* i, the loop's index into input (0-based)
    lisPc,          \* "idle", "loop" or "done"
    lisRet,         \* the slice returned
    \* ---- dupeIndexChecker
    table,          \* the table checked: PrimaryKey and SecondaryIndexes
    results,        \* the notes returned
    checked,        \* TRUE once dupeIndexChecker has returned
    \* ---- NewTempSchema and TempSchema.Cleanup
    wsPc,           \* the statement NewTempSchema or Cleanup is at
    lockTx,         \* ts.lockTx: "nil", or "tx" for the transaction of getLock
    txOpen,         \* the transaction getLock began is neither committed nor
                    \* rolled back
    lockHeld,       \* the server holds the advisory lock for that transaction
    waited,         \* the GET_LOCK queries getLock has made, one second each
    wsErr,          \* the error NewTempSchema or Cleanup returned
    hasSchema,      \* the temporary schema exists on the instance
    reuseTempSchema \* config.GetBool("reuse-temp-schema")

parseVars == <<contents, n, result, stmt, inQuote, inRelevant, inLineComment,
               inCComment, escapeNext, startStatement, charNo, lineNo, err,
               pc, startOf, escaped, openedAt, closedAt>>
indexVars == <<idx, other, ret>>
lisVars == <<lisInput, candidateLists, lisI, lisPc, lisRet>>
dupeVars == <<table, results, checked>>
\* what SQLFile.Parse leaves alone, and what the comparisons of two indexes do
wsVars == <<wsPc, lockTx, txOpen, lockHeld, waited, wsErr, hasSchema,
            reuseTempSchema>>
nonParseVars == <<indexVars, third, lisVars, dupeVars, wsVars>>
nonIndexVars == <<parseVars, third, lisVars, dupeVars, wsVars>>
vars == <<parseVars, indexVars, third, lisVars, dupeVars, wsVars>>

---------------------------------------------------------------------------
(* Bounds of the model *)

\* Every text over Alphabet of at most MaxLen characters is parsed.
MaxLen == 4

---------------------------------------------------------------------------
(* Characters and texts *)

NoQuote == ""

\* The backquote character, which cannot be written in a string of this
\* module, so it is not a one-character string.
Backquote == "backquote"

\* The characters the scanner treats specially, and one ordinary character.
Alphabet == {"\n", " ", ";", "'", "\"", "\\", "#", "-", "/", "*", "a"}

\* `SELECT 'a''b';`
QuoteDoublingText ==
    <<"S","E","L","E","C","T"," ","'","a","'","'","b","'",";">>

\* `SELECT 'abc`
UnterminatedQuoteText ==
    <<"S","E","L","E","C","T"," ","'","a","b","c">>

\* `-- comment\nSELECT 1;`
DashCommentText ==
    <<"-","-"," ","c","o","m","m","e","n","t","\n",
      "S","E","L","E","C","T"," ","1",";">>

\* `# comment\nSELECT 1;`
HashCommentText ==
    <<"#"," ","c","o","m","m","e","n","t","\n",
      "S","E","L","E","C","T"," ","1",";">>

\* `a;\n\n  /* c */ b;\n`
TwoStatementsText ==
    <<"a",";","\n","\n"," "," ","/","*"," ","c"," ","*","/"," ","b",";","\n">>

\* `/*/`
OpenerOnlyText == <<"/", "*", "/">>

\* `/* a */*`
CloserThenStarText == <<"/", "*", " ", "a", " ", "*", "/", "*">>

ExampleTexts == {QuoteDoublingText, UnterminatedQuoteText, DashCommentText,
                 HashCommentText, TwoStatementsText, OpenerOnlyText,
                 CloserThenStarText}

Texts == (UNION {[1..k -> Alphabet] : k \in 0..MaxLen}) \cup ExampleTexts

\* unicode.IsSpace, on the ASCII characters
IsSpace(c) == c \in {" ", "\t", "\n", "\r", "\f"}

\* contents[k], 0-based
At(k) == contents[k + 1]

\* contents[i:j], 0-based and half-open
Slice(i, j) == SubSeq(contents, i + 1, j)

NoErr == [kind |-> "nil", quote |-> NoQuote]

\* A Parse that reports only the unterminated quote.
ParseErrorQuoteOnly(q, cc) ==
    IF q # NoQuote THEN [kind |-> "unterminated quote", quote |-> q]
    ELSE NoErr

\* fmt.Errorf("File %s has unterminated quote %c", sf, inQuote), and
\* fmt.Errorf("File %s has unterminated C-style comment", sf)
ParseError(q, cc) ==
    IF q # NoQuote THEN [kind |-> "unterminated quote", quote |-> q]
    ELSE IF cc THEN [kind |-> "unterminated C-style comment", quote |-> NoQuote]
    ELSE NoErr

Statement(l, c, t) == [LineNo |-> l, CharNo |-> c, Text |-> t]

---------------------------------------------------------------------------
(* SQLFile.Parse *)

\* No call of longestIncreasingSubsequence is under way.
LisIdle ==
    /\ lisInput = <<>>
    /\ candidateLists = <<>>
    /\ lisI = 0
    /\ lisPc = "idle"
    /\ lisRet = <<>>

\* No temporary schema is in use.
TempSchemaIdle ==
    /\ wsPc = "idle"
    /\ lockTx = "nil"
    /\ txOpen = FALSE
    /\ lockHeld = FALSE
    /\ waited = 0
    /\ wsErr = "nil"
    /\ hasSchema = FALSE
    /\ reuseTempSchema = FALSE

\* No table is being checked.
DupeIdle ==
    /\ table = [PrimaryKey |-> [nil |-> TRUE], SecondaryIndexes |-> <<>>]
    /\ results = <<>>
    /\ checked = FALSE

InitParse ==
    /\ contents \in Texts
    /\ n = 0
    /\ result = <<>>
    /\ stmt = Statement(1, 1, <<>>)
    /\ inQuote = NoQuote
    /\ inRelevant = FALSE
    /\ inLineComment = FALSE
    /\ inCComment = FALSE
    /\ escapeNext = FALSE
    /\ startStatement = 0
    /\ charNo = 0
    /\ lineNo = 1
    /\ err = NoErr
    /\ pc = "scan"
    /\ startOf = <<>>
    /\ escaped = {}
    /\ openedAt = -1
    /\ closedAt = -1
    /\ idx = [nil |-> TRUE]
    /\ other = [nil |-> TRUE]
    /\ ret = [op |-> "none", val |-> FALSE]
    /\ third = [nil |-> TRUE]
    /\ LisIdle
    /\ TempSchemaIdle
    /\ DupeIdle

\* The loop reads the character at offset n.
Scanning == pc = "scan" /\ n < Len(contents)

\* A scanner that merges a newline onto the previous Statement wherever the
\* pending segment starts.
ScanNewlineMergeAlways ==
    /\ Scanning
    /\ At(n) = "\n"
    /\ n' = n + 1
    /\ inLineComment' = FALSE
    /\ escapeNext' = FALSE
    /\ lineNo' = lineNo + 1
    /\ charNo' = 0
    /\ IF Len(result) - 1 >= 0
       THEN /\ result' = [result EXCEPT ![Len(result)].Text = @ \o <<"\n">>]
            /\ startStatement' = startStatement + 1
            /\ stmt' = [stmt EXCEPT !.LineNo = @ + 1, !.CharNo = 1]
       ELSE UNCHANGED <<result, startStatement, stmt>>
    /\ UNCHANGED <<contents, inQuote, inRelevant, inCComment, err, pc, startOf>>
    /\ UNCHANGED <<escaped, openedAt, closedAt>>
    /\ UNCHANGED nonParseVars

\* c == '\n'
ScanNewline ==
    /\ Scanning
    /\ At(n) = "\n"
    /\ n' = n + 1
    /\ inLineComment' = FALSE
    /\ escapeNext' = FALSE
    /\ lineNo' = lineNo + 1
    /\ charNo' = 0
    /\ IF Len(result) - 1 >= 0 /\ startStatement = n
       THEN /\ result' = [result EXCEPT ![Len(result)].Text = @ \o <<"\n">>]
            /\ startStatement' = startStatement + 1
            /\ stmt' = [stmt EXCEPT !.LineNo = @ + 1, !.CharNo = 1]
       ELSE UNCHANGED <<result, startStatement, stmt>>
    /\ UNCHANGED <<contents, inQuote, inRelevant, inCComment, err, pc, startOf>>
    /\ UNCHANGED <<escaped, openedAt, closedAt>>
    /\ UNCHANGED nonParseVars

\* else if inLineComment
ScanInLineComment ==
    /\ Scanning
    /\ At(n) # "\n"
    /\ inLineComment
    /\ n' = n + 1
    /\ charNo' = charNo + 1
    /\ UNCHANGED <<contents, result, stmt, inQuote, inRelevant, inLineComment,
                   inCComment, escapeNext, startStatement, lineNo, err, pc,
                   startOf>>
    /\ UNCHANGED <<escaped, openedAt, closedAt>>
    /\ UNCHANGED nonParseVars

\* c == '/' && contents[n-1] == '*'
ClosesCComment(k) == At(k) = "/" /\ At(k - 1) = "*"

\* else if inCComment
ScanInCComment ==
    /\ Scanning
    /\ At(n) # "\n"
    /\ ~inLineComment
    /\ inCComment
    /\ n' = n + 1
    /\ charNo' = charNo + 1
    /\ inCComment' = ~ClosesCComment(n)
    /\ UNCHANGED <<contents, result, stmt, inQuote, inRelevant, inLineComment,
                   escapeNext, startStatement, lineNo, err, pc, startOf>>
    /\ closedAt' = IF ClosesCComment(n) THEN n ELSE closedAt
    /\ UNCHANGED <<escaped, openedAt>>
    /\ UNCHANGED nonParseVars

\* else if escapeNext
ScanEscaped ==
    /\ Scanning
    /\ At(n) # "\n"
    /\ ~inLineComment
    /\ ~inCComment
    /\ escapeNext
    /\ n' = n + 1
    /\ charNo' = charNo + 1
    /\ escapeNext' = FALSE
    /\ UNCHANGED <<contents, result, stmt, inQuote, inRelevant, inLineComment,
                   inCComment, startStatement, lineNo, err, pc, startOf>>
    /\ escaped' = IF inQuote = NoQuote THEN escaped \cup {n} ELSE escaped
    /\ UNCHANGED <<openedAt, closedAt>>
    /\ UNCHANGED nonParseVars

\* A scanner that never looks at the character after a quote character.
QuoteNeverDoubled(k) == FALSE

\* n < last, and the rune decoded at contents[n+1:] is the open quote
\* (last == len(byteContents) - 1)
QuoteIsDoubled(k) == k < Len(contents) - 1 /\ At(k + 1) = inQuote

\* else if inQuote > 0
ScanInQuote ==
    /\ Scanning
    /\ At(n) # "\n"
    /\ ~inLineComment
    /\ ~inCComment
    /\ ~escapeNext
    /\ inQuote # NoQuote
    /\ n' = n + 1
    /\ charNo' = charNo + 1
    /\ IF At(n) = inQuote
       THEN IF QuoteIsDoubled(n)
            THEN escapeNext' = TRUE /\ inQuote' = inQuote
            ELSE escapeNext' = escapeNext /\ inQuote' = NoQuote
       ELSE UNCHANGED <<escapeNext, inQuote>>
    /\ UNCHANGED <<contents, result, stmt, inRelevant, inLineComment,
                   inCComment, startStatement, lineNo, err, pc, startOf>>
    /\ UNCHANGED <<escaped, openedAt, closedAt>>
    /\ UNCHANGED nonParseVars

\* None of the branches that end in continue before "Handle comments".
Uninterpreted ==
    /\ Scanning
    /\ At(n) # "\n"
    /\ ~inLineComment
    /\ ~inCComment
    /\ ~escapeNext
    /\ inQuote = NoQuote

OpensHashComment(k) == At(k) = "#"
OpensCComment(k) == k > 0 /\ At(k) = "*" /\ At(k - 1) = "/"
OpensDashComment(k) ==
    k > 1 /\ At(k) = " " /\ At(k - 1) = "-" /\ At(k - 2) = "-"

\* Handle comments
ScanCommentStart ==
    /\ Uninterpreted
    /\ OpensHashComment(n) \/ OpensCComment(n) \/ OpensDashComment(n)
    /\ n' = n + 1
    /\ charNo' = charNo + 1
    /\ IF OpensHashComment(n)
       THEN inLineComment' = TRUE /\ inCComment' = inCComment
       ELSE IF OpensCComment(n)
       THEN inCComment' = TRUE /\ inLineComment' = inLineComment
       ELSE inLineComment' = TRUE /\ inCComment' = inCComment
    /\ UNCHANGED <<contents, result, stmt, inQuote, inRelevant, escapeNext,
                   startStatement, lineNo, err, pc, startOf>>
    /\ openedAt' = IF ~OpensHashComment(n) /\ OpensCComment(n) THEN n ELSE openedAt
    /\ UNCHANGED <<escaped, closedAt>>
    /\ UNCHANGED nonParseVars

\* if !unicode.IsSpace(c) && !inRelevant { ... }, then switch c { ... }
ScanContent ==
    /\ Uninterpreted
    /\ ~(OpensHashComment(n) \/ OpensCComment(n) \/ OpensDashComment(n))
    /\ n' = n + 1
    /\ charNo' = charNo + 1
    /\ LET c == At(n)
           cn == charNo + 1
           starts == ~IsSpace(c) /\ ~inRelevant
           gap == starts /\ startStatement < n
           \* after the if statement
           result1 == IF gap
                      THEN Append(result, [stmt EXCEPT !.Text = Slice(startStatement, n)])
                      ELSE result
           startOf1 == IF gap THEN Append(startOf, startStatement) ELSE startOf
           stmt1 == IF gap THEN Statement(lineNo, cn, <<>>) ELSE stmt
           \* the if statement does not assign startStatement
           start1 == startStatement
           relevant1 == IF starts THEN TRUE ELSE inRelevant
       IN  IF c = ";"
           THEN /\ result' = Append(result1, [stmt1 EXCEPT !.Text = Slice(start1, n + 1)])
                /\ startOf' = Append(startOf1, start1)
                /\ stmt' = Statement(lineNo, cn + 1, <<>>)
                /\ startStatement' = n + 1
                /\ inRelevant' = FALSE
                /\ UNCHANGED <<escapeNext, inQuote>>
           ELSE /\ result' = result1
                /\ startOf' = startOf1
                /\ stmt' = stmt1
                /\ startStatement' = start1
                /\ inRelevant' = relevant1
                /\ escapeNext' = IF c = "\\" THEN TRUE ELSE escapeNext
                /\ inQuote' = IF c \in {"\"", Backquote, "'"} THEN c ELSE inQuote
    /\ UNCHANGED <<contents, inLineComment, inCComment, lineNo, err, pc>>
    /\ UNCHANGED <<escaped, openedAt, closedAt>>
    /\ UNCHANGED nonParseVars

\* The code after the loop: the error, and "Keep any dangling statement".
Finish ==
    /\ pc = "scan"
    /\ n = Len(contents)
    /\ err' = ParseError(inQuote, inCComment)
    /\ LET text == Slice(startStatement, Len(contents))
       IN  /\ stmt' = [stmt EXCEPT !.Text = text]
           /\ IF Len(text) > 0
              THEN /\ result' = Append(result, [stmt EXCEPT !.Text = text])
                   /\ startOf' = Append(startOf, startStatement)
              ELSE UNCHANGED <<result, startOf>>
    /\ pc' = "done"
    /\ UNCHANGED <<contents, n, inQuote, inRelevant, inLineComment, inCComment,
                   escapeNext, startStatement, charNo, lineNo>>
    /\ UNCHANGED <<escaped, openedAt, closedAt>>
    /\ UNCHANGED nonParseVars

NextParse ==
    \/ ScanNewline
    \/ ScanInLineComment
    \/ ScanInCComment
    \/ ScanEscaped
    \/ ScanInQuote
    \/ ScanCommentStart
    \/ ScanContent
    \/ Finish

SpecParse == InitParse /\ [][NextParse]_vars

---------------------------------------------------------------------------
(* tengo.Index: the indexes compared *)

\* The greatest PrefixLength of an index part.
MaxPrefix == 2
\* The greatest number of parts of an index.
MaxParts == 2

\* A nil *Index
Nil == [nil |-> TRUE]

\* An IndexPart.  The table has the columns a and b; only a is ever indexed
\* by a prefix or in descending order, and one expression can be indexed.
Part(col, expr, prefix, desc) ==
    [ColumnName |-> col, Expression |-> expr, PrefixLength |-> prefix,
     Descending |-> desc]

IndexParts ==
    {Part("a", "", p, FALSE) : p \in 0..MaxPrefix}
        \cup {Part("a", "", 0, TRUE), Part("b", "", 0, FALSE),
              Part("", "lower(b)", 0, FALSE)}

\* What a part indexes: no column or expression is indexed twice by an index.
Indexed(part) == <<part.ColumnName, part.Expression>>

PartLists ==
    {ps \in UNION {[1..k -> IndexParts] : k \in 1..MaxParts} :
        \A i, j \in DOMAIN ps : i # j => Indexed(ps[i]) # Indexed(ps[j])}

\* `M=6 DISTANCE=euclidean`
AttrDefault ==
    <<"M","=","6"," ","D","I","S","T","A","N","C","E","=",
      "e","u","c","l","i","d","e","a","n">>
\* `distance=EUCLIDEAN m=6`
AttrDefaultOtherCase ==
    <<"d","i","s","t","a","n","c","e","=","E","U","C","L","I","D","E","A","N",
      " ","m","=","6">>
\* `M=8`
AttrM8 == <<"M","=","8">>

\* Type, FullTextParser and Attributes of a secondary index: a parser is
\* named only by a FULLTEXT index, attributes are given only to a VECTOR one.
IndexKinds ==
    {<<"BTREE", "", <<>>>>, <<"FULLTEXT", "", <<>>>>, <<"FULLTEXT", "ngram", <<>>>>}
        \cup {<<"VECTOR", "", a>> :
                a \in {<<>>, AttrDefault, AttrDefaultOtherCase, AttrM8}}

\* The fields of Index that Equivalent and RedundantTo read (they read
\* neither Name nor Comment).
Index(pk, unique, invisible, kind, parts) ==
    [nil |-> FALSE, PrimaryKey |-> pk, Unique |-> unique,
     Invisible |-> invisible, Type |-> kind[1], FullTextParser |-> kind[2],
     Attributes |-> kind[3], Parts |-> parts]

SecondaryIndexes ==
    {Index(FALSE, u, i, k, ps) :
        u \in BOOLEAN, i \in BOOLEAN, k \in IndexKinds, ps \in PartLists}

PrimaryKeys ==
    {Index(TRUE, TRUE, FALSE, <<"BTREE", "", <<>>>>, ps) : ps \in PartLists}

Indexes == SecondaryIndexes \cup PrimaryKeys \cup {Nil}

---------------------------------------------------------------------------
(* Attribute strings (TokenizeString and stripAnyQuote are not among the   *)
(* files of src/; they are modelled from their use in splitAttributes and  *)
(* sameAttributes and from the description of attribute normalization)     *)

LowerCase == <<"a","b","c","d","e","f","g","h","i","j","k","l","m",
               "n","o","p","q","r","s","t","u","v","w","x","y","z">>
UpperCase == <<"A","B","C","D","E","F","G","H","I","J","K","L","M",
               "N","O","P","Q","R","S","T","U","V","W","X","Y","Z">>

UpperChar(c) ==
    IF \E i \in 1..26 : LowerCase[i] = c
    THEN UpperCase[CHOOSE i \in 1..26 : LowerCase[i] = c] ELSE c
LowerChar(c) ==
    IF \E i \in 1..26 : UpperCase[i] = c
    THEN LowerCase[CHOOSE i \in 1..26 : UpperCase[i] = c] ELSE c

\* strings.ToUpper, strings.ToLower
ToUpper(t) == [i \in 1..Len(t) |-> UpperChar(t[i])]
ToLower(t) == [i \in 1..Len(t) |-> LowerChar(t[i])]

QuoteChars == {"'", "\"", Backquote}

\* TokenizeString: the tokens of t from position i on, cur being the token
\* read so far and q the quote it is inside of.  Whitespace outside quotes
\* separates tokens, `=` outside quotes is a token of its own, and a quoted
\* run stays in its token with its quotes.
RECURSIVE TokensFrom(_, _, _, _)
TokensFrom(t, i, cur, q) ==
    LET flush == IF cur = <<>> THEN <<>> ELSE <<cur>>
    IN  IF i > Len(t) THEN flush
        ELSE IF q # NoQuote
             THEN TokensFrom(t, i + 1, Append(cur, t[i]),
                             IF t[i] = q THEN NoQuote ELSE q)
        ELSE IF IsSpace(t[i]) THEN flush \o TokensFrom(t, i + 1, <<>>, NoQuote)
        ELSE IF t[i] = "=" THEN flush \o <<(<<"=">>)>> \o TokensFrom(t, i + 1, <<>>, NoQuote)
        ELSE TokensFrom(t, i + 1, Append(cur, t[i]),
                        IF t[i] \in QuoteChars THEN t[i] ELSE NoQuote)

TokenizeString(t) == TokensFrom(t, 1, <<>>, NoQuote)

\* stripAnyQuote: t without the pair of quotes that wraps it, if one does
stripAnyQuote(t) ==
    IF Len(t) >= 2 /\ t[1] \in QuoteChars /\ t[Len(t)] = t[1]
    THEN SubSeq(t, 2, Len(t) - 1) ELSE t

\* The loop of splitAttributes, from token k on
RECURSIVE AttributesFrom(_, _)
AttributesFrom(tokens, k) ==
    IF k > Len(tokens) THEN <<>>
    ELSE LET field == IF tokens[k][1] = Backquote THEN tokens[k] ELSE ToUpper(tokens[k])
         IN  IF k < Len(tokens) - 1 /\ tokens[k + 1] = <<"=">>
             THEN LET value == tokens[k + 2]
                      kv == IF value[1] = "\"" /\ value[Len(value)] = "\""
                            THEN field \o <<"=", "'">>
                                    \o SubSeq(value, 2, Len(value) - 1) \o <<"'">>
                            ELSE field \o <<"=">> \o value
                  IN  <<kv>> \o AttributesFrom(tokens, k + 3)
             ELSE IF field # <<"P","A","R","T","I","T","I","O","N","E","D">>
             THEN <<field>> \o AttributesFrom(tokens, k + 1)
             ELSE AttributesFrom(tokens, k + 1)

splitAttributes(input) ==
    IF input = <<>> THEN <<>> ELSE AttributesFrom(TokenizeString(input), 1)

\* strings.Cut(kv, "="): the text before and the text after the first `=`
CutKey(kv) ==
    IF \E i \in 1..Len(kv) : kv[i] = "="
    THEN SubSeq(kv, 1, (CHOOSE i \in 1..Len(kv) :
                           kv[i] = "=" /\ \A j \in 1..(i - 1) : kv[j] # "=") - 1)
    ELSE kv
CutValue(kv) ==
    IF \E i \in 1..Len(kv) : kv[i] = "="
    THEN SubSeq(kv, (CHOOSE i \in 1..Len(kv) :
                        kv[i] = "=" /\ \A j \in 1..(i - 1) : kv[j] # "=") + 1, Len(kv))
    ELSE <<>>

\* m[k] = v, of a Go map
MapPut(m, k, v) == [x \in DOMAIN m \cup {k} |-> IF x = k THEN v ELSE m[x]]

EmptyMap == [x \in {} |-> <<>>]

\* The defaults of the vector attributes
VectorDefaults ==
    MapPut(MapPut(EmptyMap, <<"M">>, <<"6">>),
           <<"D","I","S","T","A","N","C","E">>,
           <<"e","u","c","l","i","d","e","a","n">>)

RECURSIVE PutAttributes(_, _, _)
PutAttributes(m, kvs, k) ==
    IF k > Len(kvs) THEN m
    ELSE PutAttributes(MapPut(m, ToUpper(stripAnyQuote(CutKey(kvs[k]))),
                              ToLower(stripAnyQuote(CutValue(kvs[k])))),
                       kvs, k + 1)

\* attrStringToMap, the closure of sameAttributes
attrStringToMap(index) ==
    PutAttributes(IF index.Type = "VECTOR" THEN VectorDefaults ELSE EmptyMap,
                  splitAttributes(index.Attributes), 1)

---------------------------------------------------------------------------
(* tengo.Index: Equivalent and RedundantTo *)

\* A comparison of Parts that stops at the end of the receiver's parts.
samePartsNoLength(i, o) ==
    \A k \in 1..Len(i.Parts) : k <= Len(o.Parts) /\ i.Parts[k] = o.Parts[k]

sameParts(i, o) ==
    IF Len(i.Parts) # Len(o.Parts) THEN FALSE
    ELSE \A k \in 1..Len(i.Parts) : i.Parts[k] = o.Parts[k]

\* A comparison that substitutes the defaults of neither index.
sameAttributesText(i, o) == i.Attributes = o.Attributes

sameAttributes(i, o) ==
    IF i.Attributes = o.Attributes THEN TRUE
    ELSE attrStringToMap(i) = attrStringToMap(o)

Equivalent(i, o) ==
    IF i = Nil \/ o = Nil THEN i = o
    ELSE IF \/ i.PrimaryKey # o.PrimaryKey
            \/ i.Unique # o.Unique
            \/ i.Type # o.Type
            \/ i.FullTextParser # o.FullTextParser
         THEN FALSE
    ELSE sameParts(i, o) /\ sameAttributes(i, o)

\* A first test that lets the primary key through.
NeverRedundantNoPK(i, o) ==
    \/ (i.Unique /\ ~o.Unique)
    \/ i.Type # o.Type
    \/ i.FullTextParser # o.FullTextParser

\* The test of the first return false of RedundantTo, after the nil test
NeverRedundant(i, o) ==
    \/ i.PrimaryKey
    \/ (i.Unique /\ ~o.Unique)
    \/ i.Type # o.Type
    \/ i.FullTextParser # o.FullTextParser

\* A test that ignores visibility.
VisibleToInvisibleNever(i, o) == FALSE

\* !idx.Invisible && other.Invisible
VisibleToInvisible(i, o) == ~i.Invisible /\ o.Invisible

\* A prefix comparison that forgets the receiver's part may be unprefixed.
PartCoveredNoZero(part, otherPart) ==
    /\ part.ColumnName = otherPart.ColumnName
    /\ part.Expression = otherPart.Expression
    /\ part.Descending = otherPart.Descending
    /\ ~(otherPart.PrefixLength > 0 /\ part.PrefixLength > otherPart.PrefixLength)

\* The body of the loop over idx.Parts: TRUE when it does not return false
PartCovered(part, otherPart) ==
    /\ ~(\/ part.ColumnName # otherPart.ColumnName
         \/ part.Expression # otherPart.Expression
         \/ part.Descending # otherPart.Descending)
    /\ ~(/\ otherPart.PrefixLength > 0
         /\ (part.PrefixLength = 0 \/ part.PrefixLength > otherPart.PrefixLength))

\* A RedundantTo without the rule for two unique indexes.
RedundantToNoUniqueRule(i, o) ==
    IF i = Nil \/ o = Nil THEN FALSE
    ELSE IF NeverRedundant(i, o) THEN FALSE
    ELSE IF VisibleToInvisible(i, o) THEN FALSE
    ELSE IF i.Type = "VECTOR" THEN sameParts(i, o) /\ sameAttributes(i, o)
    ELSE IF i.Type = "FULLTEXT" /\ Len(i.Parts) # Len(o.Parts) THEN FALSE
    ELSE IF Len(i.Parts) > Len(o.Parts) THEN FALSE
    ELSE \A k \in 1..Len(i.Parts) : PartCovered(i.Parts[k], o.Parts[k])

RedundantTo(i, o) ==
    IF i = Nil \/ o = Nil THEN FALSE
    ELSE IF NeverRedundant(i, o) THEN FALSE
    ELSE IF VisibleToInvisible(i, o) THEN FALSE
    ELSE IF i.Unique /\ o.Unique THEN sameParts(i, o)
    ELSE IF i.Type = "VECTOR" THEN sameParts(i, o) /\ sameAttributes(i, o)
    ELSE IF i.Type = "FULLTEXT" /\ Len(i.Parts) # Len(o.Parts) THEN FALSE
    ELSE IF Len(i.Parts) > Len(o.Parts) THEN FALSE
    ELSE \A k \in 1..Len(i.Parts) : PartCovered(i.Parts[k], o.Parts[k])

NoCall == [op |-> "none", val |-> FALSE]

\* Two indexes of one table, or nil pointers, are about to be compared; each
\* behaviour makes one call.
\* No file is being parsed.
ParseIdle ==
    /\ contents = <<>>
    /\ n = 0
    /\ result = <<>>
    /\ stmt = Statement(1, 1, <<>>)
    /\ inQuote = NoQuote
    /\ inRelevant = FALSE
    /\ inLineComment = FALSE
    /\ inCComment = FALSE
    /\ escapeNext = FALSE
    /\ startStatement = 0
    /\ charNo = 0
    /\ lineNo = 1
    /\ err = NoErr
    /\ pc = "done"
    /\ startOf = <<>>
    /\ escaped = {}
    /\ openedAt = -1
    /\ closedAt = -1

InitIndex ==
    /\ idx \in Indexes
    /\ other \in Indexes
    /\ ret = NoCall
    /\ third = Nil
    /\ ParseIdle
    /\ LisIdle
    /\ TempSchemaIdle
    /\ DupeIdle

\* idx.Equivalent(other)
CallEquivalent ==
    /\ ret = NoCall
    /\ ret' = [op |-> "Equivalent", val |-> Equivalent(idx, other)]
    /\ UNCHANGED <<idx, other>>
    /\ UNCHANGED nonIndexVars

\* idx.RedundantTo(other)
CallRedundantTo ==
    /\ ret = NoCall
    /\ ret' = [op |-> "RedundantTo", val |-> RedundantTo(idx, other)]
    /\ UNCHANGED <<idx, other>>
    /\ UNCHANGED nonIndexVars

NextIndex == CallEquivalent \/ CallRedundantTo

SpecIndex == InitIndex /\ [][NextIndex]_vars

---------------------------------------------------------------------------
(* Properties of SQLFile.Parse *)

RECURSIVE ConcatTexts(_)
ConcatTexts(r) ==
    IF r = <<>> THEN <<>> ELSE r[1].Text \o ConcatTexts(Tail(r))

Texts_(r) == [k \in 1..Len(r) |-> r[k].Text]

\* The 1-based line and column of the character at offset o of contents.
NewlinesBefore(o) == {k \in 0..(o - 1) : At(k) = "\n"}
LineOf(o) == 1 + Cardinality(NewlinesBefore(o))
ColOf(o) ==
    IF NewlinesBefore(o) = {} THEN o + 1
    ELSE o - (CHOOSE k \in NewlinesBefore(o) : \A j \in NewlinesBefore(o) : j <= k)

\* t[i..] is whitespace and line comments, each comment closed by a newline.
RECURSIVE GapFrom(_, _)
GapFrom(t, i) ==
    IF i > Len(t) THEN TRUE
    ELSE IF IsSpace(t[i]) THEN GapFrom(t, i + 1)
    ELSE IF \/ t[i] = "#"
            \/ (i + 2 <= Len(t) /\ t[i] = "-" /\ t[i + 1] = "-" /\ t[i + 2] = " ")
         THEN LET nl == {j \in i..Len(t) : t[j] = "\n"}
              IN  IF nl = {} THEN FALSE
                  ELSE GapFrom(t, 1 + CHOOSE j \in nl : \A m \in nl : j <= m)
    ELSE FALSE

IsGapText(t) == Len(t) > 0 /\ GapFrom(t, 1)

\* The character at offset k starts a statement: it is neither whitespace nor
\* the first character of a comment.
StartsStatement(k) ==
    /\ ~IsSpace(At(k))
    /\ At(k) # "#"
    /\ ~(k + 1 < Len(contents) /\ At(k) = "/" /\ At(k + 1) = "*")
    /\ ~(k + 2 < Len(contents) /\ At(k) = "-" /\ At(k + 1) = "-" /\ At(k + 2) = " ")

\* C1: once Parse has returned, with or without an error, the Texts of the
\* returned Statements concatenated in order are the input.
C1_RoundTrip == pc = "done" => ConcatTexts(result) = contents

\* C2: whitespace and line comments before a statement are returned as an
\* interstitial Statement of their own, and the Statement after an
\* interstitial one begins where the interstitial one ends, at the
\* statement's first character; `-- comment\nSELECT 1;` gives exactly the
\* Statements `-- comment\n` and `SELECT 1;`.
C2_CommentSkipping ==
    pc = "done" =>
        /\ \A g \in 1..(Len(contents) - 1) :
              (IsGapText(Slice(0, g)) /\ StartsStatement(g)) =>
                  /\ Len(result) >= 2
                  /\ result[1].Text = Slice(0, g)
                  /\ startOf[2] = g
        /\ \A k \in 1..(Len(result) - 1) :
              IsGapText(result[k].Text) =>
                  startOf[k + 1] = startOf[k] + Len(result[k].Text)
        /\ contents = DashCommentText =>
              Texts_(result) = <<SubSeq(DashCommentText, 1, 11),
                                 SubSeq(DashCommentText, 12, 20)>>

\* C3: while a quote is open, its quote character followed by the same
\* character does not close it, and the quote is still open after the pair;
\* no statement is closed while a quote is open; `SELECT 'a''b';` gives one
\* Statement, the whole input, and no error.
C3_QuoteDoubling ==
    [][ /\ (/\ pc = "scan"
            /\ inQuote # NoQuote
            /\ n + 1 < Len(contents)
            /\ At(n) = inQuote
            /\ At(n + 1) = inQuote) => inQuote' = inQuote
        /\ (pc = "scan" /\ inQuote # NoQuote /\ escapeNext /\ n < Len(contents))
              => inQuote' = inQuote
        /\ (pc = "scan" /\ inQuote # NoQuote /\ n < Len(contents))
              => result' = result
        /\ (pc' = "done" /\ contents = QuoteDoublingText)
              => Texts_(result') = <<QuoteDoublingText>> /\ err' = NoErr
      ]_vars

C3_Witness ==
    /\ pc = "done"
    /\ contents = QuoteDoublingText
    /\ Len(result) = 1
    /\ err = NoErr

C5_Position ==
    \A k \in 1..Len(result) :
        /\ result[k].LineNo = LineOf(startOf[k])
        /\ result[k].CharNo = ColOf(startOf[k])


---------------------------------------------------------------------------
(* Properties of Index.Equivalent and Index.RedundantTo *)

BTree == <<"BTREE", "", <<>>>>
ColA == Part("a", "", 0, FALSE)
ColB == Part("b", "", 0, FALSE)
\* KEY (a), KEY (a,b), UNIQUE KEY (a), UNIQUE KEY (a,b)
KeyA == Index(FALSE, FALSE, FALSE, BTree, <<ColA>>)
KeyAB == Index(FALSE, FALSE, FALSE, BTree, <<ColA, ColB>>)
UniqueA == Index(FALSE, TRUE, FALSE, BTree, <<ColA>>)
UniqueAB == Index(FALSE, TRUE, FALSE, BTree, <<ColA, ColB>>)

Called(op) == ret.op = op
BothIndexes == idx # Nil /\ other # Nil

\* C6: Equivalent gives the same answer with its receiver and argument
\* exchanged, nil included, and every index is Equivalent to itself.
C6_EquivalentSymmetric ==
    Called("Equivalent") =>
        /\ ret.val = Equivalent(other, idx)
        /\ idx # Nil => Equivalent(idx, idx)

C6_Witness ==
    /\ Called("Equivalent")
    /\ BothIndexes
    /\ idx.Attributes # other.Attributes
    /\ idx.Invisible # other.Invisible
    /\ ret.val

\* The cases C7 is about.
LeftPrefixCase(a, b) ==
    /\ a.Type = b.Type
    /\ a.FullTextParser = b.FullTextParser
    /\ ~a.PrimaryKey
    /\ ~(a.Unique /\ b.Unique)
    /\ ~(a.Unique /\ ~b.Unique)
    /\ a.Type # "VECTOR"
    /\ a.Type = "FULLTEXT" => Len(a.Parts) = Len(b.Parts)
    /\ ~(~a.Invisible /\ b.Invisible)

IsLeftPrefix(a, b) ==
    /\ Len(a.Parts) <= Len(b.Parts)
    /\ \A k \in 1..Len(a.Parts) :
          /\ a.Parts[k].ColumnName = b.Parts[k].ColumnName
          /\ a.Parts[k].Expression = b.Parts[k].Expression
          /\ a.Parts[k].Descending = b.Parts[k].Descending
          /\ \/ b.Parts[k].PrefixLength = 0
             \/ /\ a.Parts[k].PrefixLength # 0
                /\ a.Parts[k].PrefixLength <= b.Parts[k].PrefixLength

\* C7: in the cases no other rule decides, a is RedundantTo b exactly when
\* a's parts are a left prefix of b's, each part of a indexing at most what
\* b's part indexes; KEY (a) is RedundantTo KEY (a,b) and not the reverse.
C7_LeftPrefix ==
    Called("RedundantTo") =>
        /\ (BothIndexes /\ LeftPrefixCase(idx, other)) =>
              (ret.val <=> IsLeftPrefix(idx, other))
        /\ (idx = KeyA /\ other = KeyAB) => ret.val
        /\ (idx = KeyAB /\ other = KeyA) => ~ret.val

C7_Witness ==
    /\ Called("RedundantTo")
    /\ BothIndexes
    /\ LeftPrefixCase(idx, other)
    /\ Len(idx.Parts) < Len(other.Parts)
    /\ idx.Parts[1].PrefixLength = 1
    /\ other.Parts[1].PrefixLength = 2
    /\ ret.val

\* C8: a primary key is RedundantTo nothing, and RedundantTo is false when
\* either index is nil.
C8_PrimaryKeyImmunity ==
    (Called("RedundantTo") /\ (idx = Nil \/ other = Nil \/ idx.PrimaryKey))
        => ~ret.val

C8_Witness ==
    /\ Called("RedundantTo")
    /\ BothIndexes
    /\ idx.PrimaryKey
    /\ Equivalent(idx, other)
    /\ ~ret.val

\* C9: a unique index that is not the primary key is RedundantTo a unique
\* index only if their parts are identical, and never to a non-unique one;
\* UNIQUE KEY (a) is not RedundantTo UNIQUE KEY (a,b).
C9_UniqueExemption ==
    Called("RedundantTo") =>
        /\ (BothIndexes /\ idx.Unique /\ ~idx.PrimaryKey) =>
              /\ (other.Unique /\ ret.val) =>
                    /\ Len(idx.Parts) = Len(other.Parts)
                    /\ \A k \in 1..Len(idx.Parts) :
                          /\ idx.Parts[k].ColumnName = other.Parts[k].ColumnName
                          /\ idx.Parts[k].Expression = other.Parts[k].Expression
                          /\ idx.Parts[k].PrefixLength = other.Parts[k].PrefixLength
                          /\ idx.Parts[k].Descending = other.Parts[k].Descending
              /\ ~other.Unique => ~ret.val
        /\ (idx = UniqueA /\ other = UniqueAB) => ~ret.val

C9_Witness ==
    /\ Called("RedundantTo")
    /\ idx = UniqueA
    /\ other = UniqueAB
    /\ ~ret.val

DefaultedPair(a, b) ==
    /\ a.Type = "VECTOR"
    /\ b.Type = "VECTOR"
    /\ a.PrimaryKey = b.PrimaryKey
    /\ a.Unique = b.Unique
    /\ a.FullTextParser = b.FullTextParser
    /\ a.Parts = b.Parts
    /\ a.Attributes = <<>>
    /\ b.Attributes \in {AttrDefault, AttrDefaultOtherCase}

\* C11: a VECTOR index without attributes is Equivalent to the otherwise
\* identical VECTOR index with the attributes M=6 DISTANCE=euclidean, in
\* any letter case and in any order of the two entries.
C11_AttributeDefaulting ==
    (Called("Equivalent") /\ BothIndexes
        /\ (DefaultedPair(idx, other) \/ DefaultedPair(other, idx)))
        => ret.val

C11_Witness ==
    /\ Called("Equivalent")
    /\ BothIndexes
    /\ DefaultedPair(idx, other)
    /\ other.Attributes = AttrDefaultOtherCase
    /\ ret.val

---------------------------------------------------------------------------
(* longestIncreasingSubsequence *)

\* The greatest length of an input list.
MaxItems == 5
\* The greatest value in an input list; the values are 0..MaxValue.
MaxValue == 3

IntLists == UNION {[1..k -> 0..MaxValue] : k \in 0..MaxItems}

InitLIS ==
    /\ lisInput \in IntLists
    /\ candidateLists = <<>>
    /\ lisI = 0
    /\ lisPc = "call"
    /\ lisRet = <<>>
    /\ idx = Nil
    /\ other = Nil
    /\ ret = NoCall
    /\ third = Nil
    /\ ParseIdle
    /\ DupeIdle
    /\ TempSchemaIdle

\* if len(input) < 2 { return input }
LisShort ==
    /\ lisPc = "call"
    /\ Len(lisInput) < 2
    /\ lisRet' = lisInput
    /\ lisPc' = "done"
    /\ UNCHANGED <<lisInput, candidateLists, lisI>>
    /\ UNCHANGED <<parseVars, indexVars, third, dupeVars, wsVars>>

\* candidateLists[0] = []int{input[0]}, and i := 1
LisStart ==
    /\ lisPc = "call"
    /\ Len(lisInput) >= 2
    /\ candidateLists' = << <<lisInput[1]>> >>
    /\ lisI' = 1
    /\ lisPc' = "loop"
    /\ UNCHANGED <<lisInput, lisRet>>
    /\ UNCHANGED <<parseVars, indexVars, third, dupeVars, wsVars>>

\* comp := input[i]
Comp == lisInput[lisI + 1]

Last(list) == list[Len(list)]

InLoop == lisPc = "loop" /\ lisI < Len(lisInput)

\* if comp < candidateLists[0][0]
LisLowerFirst ==
    /\ InLoop
    /\ Comp < candidateLists[1][1]
    /\ candidateLists' = [candidateLists EXCEPT ![1][1] = Comp]
    /\ lisI' = lisI + 1
    /\ UNCHANGED <<lisInput, lisPc, lisRet>>
    /\ UNCHANGED <<parseVars, indexVars, third, dupeVars, wsVars>>

\* else if comp > longestList[len(longestList)-1]
LisExtend ==
    /\ InLoop
    /\ ~(Comp < candidateLists[1][1])
    /\ Comp > Last(Last(candidateLists))
    /\ candidateLists' = Append(candidateLists, Append(Last(candidateLists), Comp))
    /\ lisI' = lisI + 1
    /\ UNCHANGED <<lisInput, lisPc, lisRet>>
    /\ UNCHANGED <<parseVars, indexVars, third, dupeVars, wsVars>>

\* A replacement that only sets the last element, without the copy.
SetLastOnly(nextList, thisList, comp) ==
    [nextList EXCEPT ![Len(nextList)] = comp]

\* copy(nextList, thisList); nextList[len(nextList)-1] = comp
CopyAndSetLast(nextList, thisList, comp) ==
    [p \in 1..Len(nextList) |->
        IF p = Len(nextList) THEN comp
        ELSE IF p <= Len(thisList) THEN thisList[p]
        ELSE nextList[p]]

\* else { for j := len(candidateLists) - 2; j >= 0; j-- { ... break } }
\* (j is the 1-based position of thisList)
LisReplace ==
    /\ InLoop
    /\ ~(Comp < candidateLists[1][1])
    /\ ~(Comp > Last(Last(candidateLists)))
    /\ LET found == {j \in 1..(Len(candidateLists) - 1) :
                        Comp > Last(candidateLists[j])}
       IN  IF found = {}
           THEN UNCHANGED candidateLists
           ELSE LET j == CHOOSE x \in found : \A y \in found : y <= x
                IN  candidateLists' =
                        [candidateLists EXCEPT ![j + 1] =
                            CopyAndSetLast(@, candidateLists[j], Comp)]
    /\ lisI' = lisI + 1
    /\ UNCHANGED <<lisInput, lisPc, lisRet>>
    /\ UNCHANGED <<parseVars, indexVars, third, dupeVars, wsVars>>

\* return candidateLists[len(candidateLists)-1]
LisReturn ==
    /\ lisPc = "loop"
    /\ lisI = Len(lisInput)
    /\ lisRet' = Last(candidateLists)
    /\ lisPc' = "done"
    /\ UNCHANGED <<lisInput, candidateLists, lisI>>
    /\ UNCHANGED <<parseVars, indexVars, third, dupeVars, wsVars>>

NextLIS ==
    \/ LisShort
    \/ LisStart
    \/ LisLowerFirst
    \/ LisExtend
    \/ LisReplace
    \/ LisReturn

SpecLIS == InitLIS /\ [][NextLIS]_vars

---------------------------------------------------------------------------
(* Properties of longestIncreasingSubsequence *)

\* The elements of t at the positions in S, in the order of t.
Pick(t, S) ==
    [k \in 1..Cardinality(S) |->
        t[CHOOSE x \in S : Cardinality({y \in S : y <= x}) = k]]

Subsequences(t) == {Pick(t, S) : S \in SUBSET (DOMAIN t)}

NonDecreasing(s) == \A k \in 1..(Len(s) - 1) : s[k] <= s[k + 1]
StrictlyIncreasing(s) == \A k \in 1..(Len(s) - 1) : s[k] < s[k + 1]

\* The greatest length of a sequence of the non-empty set S.
LongestIn(S) == CHOOSE k \in {Len(s) : s \in S} : \A s \in S : Len(s) <= k

\* C12, as stated: the list returned is a subsequence of the input, is
\* non-decreasing, and is as long as the longest non-decreasing subsequence
\* of the input; an input of fewer than 2 elements is returned unchanged.
C12_LongestNonDecreasing ==
    lisPc = "done" =>
        /\ lisRet \in Subsequences(lisInput)
        /\ NonDecreasing(lisRet)
        /\ Len(lisRet) =
              LongestIn({s \in Subsequences(lisInput) : NonDecreasing(s)})
        /\ Len(lisInput) < 2 => lisRet = lisInput

\* C12, amended: the list returned is a subsequence of the input, is strictly
\* increasing, and is as long as the longest strictly increasing subsequence
\* of the input; an input of fewer than 2 elements is returned unchanged.
C12_LongestIncreasing ==
    lisPc = "done" =>
        /\ lisRet \in Subsequences(lisInput)
        /\ StrictlyIncreasing(lisRet)
        /\ Len(lisRet) =
              LongestIn({s \in Subsequences(lisInput) : StrictlyIncreasing(s)})
        /\ Len(lisInput) < 2 => lisRet = lisInput

\* An input with a repeated value, for which the loop replaced inside a
\* candidate list, and whose result is shorter than the longest
\* non-decreasing subsequence.
C12_Witness ==
    /\ lisPc = "done"
    /\ lisInput = <<2, 3, 1, 2, 2>>
    /\ lisRet = <<1, 2>>
    /\ LongestIn({s \in Subsequences(lisInput) : NonDecreasing(s)}) = 3

---------------------------------------------------------------------------
(* Index.Definition *)

\* For Definition a string that is escaped is a sequence of characters, the
\* empty string is <<>>, and the clause returned is a sequence of fragments:
\* the literals of the code, and the characters of the escaped strings.

\* The NUL character, which cannot be written in a string of this module.
Nul == "NUL"

\* The sequences of seqs, one after the other.
RECURSIVE Flatten(_)
Flatten(seqs) ==
    IF seqs = <<>> THEN <<>> ELSE Head(seqs) \o Flatten(Tail(seqs))

\* strings.Join(list, sep)
RECURSIVE Join(_, _)
Join(list, sep) ==
    IF list = <<>> THEN <<>>
    ELSE IF Len(list) = 1 THEN Head(list)
    ELSE Head(list) \o <<sep>> \o Join(Tail(list), sep)

\* "`" + strings.ReplaceAll(input, "`", "``") + "`"
EscapeIdentifier(input) ==
    <<Backquote>>
        \o Flatten([k \in 1..Len(input) |->
                       IF input[k] = Backquote THEN <<Backquote, Backquote>>
                       ELSE <<input[k]>>])
        \o <<Backquote>>

\* replacerCreateTableString.Replace(input)
EscapeValueForCreateTable(input) ==
    Flatten([k \in 1..Len(input) |->
                CASE input[k] = "\\" -> <<"\\", "\\">>
                  [] input[k] = Nul -> <<"\\", "0">>
                  [] input[k] = "'" -> <<"'", "'">>
                  [] input[k] = "\n" -> <<"\\", "n">>
                  [] input[k] = "\r" -> <<"\\", "r">>
                  [] OTHER -> <<input[k]>>])

\* What Definition asks of the Flavor: IsMariaDB() and MinMariaDB(11, 7).
Flavors ==
    {[IsMariaDB |-> FALSE, MinMariaDB117 |-> FALSE],
     [IsMariaDB |-> TRUE, MinMariaDB117 |-> FALSE],
     [IsMariaDB |-> TRUE, MinMariaDB117 |-> TRUE]}

\* IndexPart.Definition; the column names of the model are one character.
PartDefinition(part) ==
    LET base == IF part.ColumnName # ""
                THEN EscapeIdentifier(<<part.ColumnName>>)
                ELSE <<"(", part.Expression, ")">>
        prefix == IF part.PrefixLength > 0
                  THEN <<"(", ToString(part.PrefixLength), ")">>
                  ELSE <<>>
        collation == IF part.Descending THEN <<" DESC">> ELSE <<>>
    IN  base \o prefix \o collation

\* A Definition that never panics.
DefinitionPanicsNever(index) == FALSE

\* if idx.PrimaryKey { if !idx.Unique { panic(...) } }
DefinitionPanics(index) == index.PrimaryKey /\ ~index.Unique

Panic == [panic |-> TRUE, text |-> <<>>]
Returned(text) == [panic |-> FALSE, text |-> text]

\* idx.Definition(flavor)
Definition(index, flavor) ==
    LET parts == [k \in 1..Len(index.Parts) |-> PartDefinition(index.Parts[k])]
        typeAndName ==
            IF index.PrimaryKey THEN <<"PRIMARY KEY">>
            ELSE IF index.Unique
            THEN <<"UNIQUE KEY ">> \o EscapeIdentifier(index.Name)
            ELSE IF index.Type # "BTREE" /\ index.Type # ""
            THEN <<index.Type, " KEY ">> \o EscapeIdentifier(index.Name)
            ELSE <<"KEY ">> \o EscapeIdentifier(index.Name)
        comment ==
            IF index.Comment # <<>>
            THEN <<" COMMENT '">> \o EscapeValueForCreateTable(index.Comment)
                     \o <<"'">>
            ELSE <<>>
        invis ==
            IF index.Invisible
            THEN IF flavor.IsMariaDB THEN <<" IGNORED">>
                 ELSE <<" /*!80000 INVISIBLE */">>
            ELSE <<>>
        parser ==
            IF index.Type = "FULLTEXT" /\ index.FullTextParser # <<>>
            THEN IF flavor.MinMariaDB117
                 THEN <<" WITH PARSER ">> \o EscapeIdentifier(index.FullTextParser)
                 ELSE <<" /*!50100 WITH PARSER ">>
                          \o EscapeIdentifier(index.FullTextParser) \o <<" */ ">>
            ELSE <<>>
        attributes ==
            IF index.Attributes # <<>> THEN <<" ">> \o index.Attributes
            ELSE <<>>
    IN  IF DefinitionPanics(index) THEN Panic
        ELSE Returned(typeAndName \o <<" (">> \o Join(parts, ",") \o <<")">>
                          \o comment \o invis \o parser \o attributes)

\* The names and comments of the indexes defined.
IndexNames == {<<"i">>, <<"i", Backquote>>}
IndexComments == {<<>>, <<"'", "\\", "\n", "\r", Nul, "c">>}
ParserNames == {<<>>, <<"n", "g", "r", "a", "m">>}

\* The indexes Definition is called on: every combination of the two flags,
\* the primary key that is not marked unique included.
DefinitionIndexes ==
    {[nil |-> FALSE, Name |-> name, Comment |-> comment, PrimaryKey |-> pk,
      Unique |-> u, Invisible |-> i, Type |-> type, FullTextParser |-> parser,
      Attributes |-> attrs, Parts |-> parts] :
        name \in IndexNames, comment \in IndexComments, pk \in BOOLEAN,
        u \in BOOLEAN, i \in BOOLEAN,
        type \in {"BTREE", "", "FULLTEXT", "VECTOR"}, parser \in ParserNames,
        attrs \in {<<>>, AttrM8}, parts \in PartLists}

InitDefinition ==
    /\ idx \in DefinitionIndexes
    /\ other = Nil
    /\ ret = NoCall
    /\ third = Nil
    /\ ParseIdle
    /\ LisIdle
    /\ TempSchemaIdle
    /\ DupeIdle

CallDefinition ==
    /\ ret = NoCall
    /\ \E flavor \in Flavors :
          ret' = [op |-> "Definition", flavor |-> flavor,
                  val |-> Definition(idx, flavor)]
    /\ UNCHANGED <<idx, other>>
    /\ UNCHANGED nonIndexVars

NextDefinition == CallDefinition

SpecDefinition == InitDefinition /\ [][NextDefinition]_vars

\* C13: Definition panics exactly when the index is a primary key that is
\* not marked unique; for every other index it returns a clause, which opens
\* with the kind of key and lists the parts in parentheses.
C13_DefinitionPanic ==
    Called("Definition") =>
        /\ ret.val.panic <=> (idx.PrimaryKey /\ ~idx.Unique)
        /\ ret.val.panic => ret.val.text = <<>>
        /\ ~ret.val.panic =>
              /\ Len(ret.val.text) > 0
              /\ Head(ret.val.text) \in
                    {"PRIMARY KEY", "UNIQUE KEY ", "KEY ", idx.Type}
              /\ \E k \in DOMAIN ret.val.text : ret.val.text[k] = " ("

C13_Witness ==
    /\ Called("Definition")
    /\ idx.PrimaryKey
    /\ ~idx.Unique
    /\ ret.val = Panic

---------------------------------------------------------------------------
(* Properties of the steps of SQLFile.Parse *)

\* The scanner is outside any quote, line comment and block comment, and
\* the character it reads does not follow a backslash that set the escape
\* state.
Unprotected == inQuote = NoQuote /\ ~inLineComment /\ ~inCComment /\ ~escapeNext

\* Where the Statement r[k] ends in the input, given where each one starts.
EndOf(r, starts, k) == starts[k] + Len(r[k].Text)

\* Where the pending segment of the Statement r[k] starts: at the start of
\* the input, or where the Statement before it ends.
PendingStartOf(r, starts, k) == IF k = 1 THEN 0 ELSE EndOf(r, starts, k - 1)

\* C14: when the scanner reads a `;`, a Statement is closed if and only if
\* the `;` is outside any quote and comment and is not escaped; the Text of
\* that Statement runs from the pending segment start through the `;`, and
\* the next pending segment starts immediately after the `;`.
C14_StatementTermination ==
    [][ (Scanning /\ At(n) = ";") =>
          /\ Len(result') > Len(result) <=> Unprotected
          /\ Unprotected =>
                LET k == Len(result')
                    start == PendingStartOf(result', startOf', k)
                IN  /\ result'[k].Text = Slice(start, n + 1)
                    /\ startOf'[k] = start
                    /\ startStatement' = n + 1
      ]_vars

\* The scanner reads the character after a backslash that it saw outside
\* any quote and any comment.
InEscape == Scanning /\ escapeNext /\ inQuote = NoQuote

\* C15: the character after such a backslash, unless it is a newline, opens
\* no quote, closes no statement and starts no comment, and the escape state
\* is cleared after it (a newline just clears the state); nor is that
\* character the `/` of a `/*` or a `-` of a `-- ` that starts a comment
\* later.
C15_EscapeState ==
    [][ /\ InEscape => ~escapeNext'
        /\ (InEscape /\ At(n) # "\n") =>
              /\ inQuote' = NoQuote
              /\ result' = result
              /\ ~inLineComment'
              /\ ~inCComment'
        /\ (Scanning /\ ~inCComment /\ inCComment') => (n - 1) \notin escaped
        /\ (Scanning /\ ~inLineComment /\ inLineComment' /\ At(n) = " ") =>
              /\ (n - 1) \notin escaped
              /\ (n - 2) \notin escaped
      ]_vars

\* The offset at which the run of newlines that ends just before offset k
\* starts; k itself when the character before k is not a newline.
RunStart(k) ==
    CHOOSE s \in 0..k :
        /\ \A j \in s..(k - 1) : At(j) = "\n"
        /\ s > 0 => At(s - 1) # "\n"

\* The last Statement returned so far was closed by the `;` at offset p: its
\* Text is the input from its start through that `;`, and then only
\* newlines of the run after the `;`.
ClosedBy(p) ==
    /\ result # <<>>
    /\ At(p) = ";"
    /\ LET k == Len(result)
       IN  /\ startOf[k] <= p
           /\ \E m \in 0..(n - p - 1) :
                 result[k].Text = Slice(startOf[k], p + 1 + m)

\* The character at offset n is in a run of newlines that starts
\* immediately after the `;` of the content Statement closed last.
InRunAfterClose == RunStart(n) > 0 /\ ClosedBy(RunStart(n) - 1)

\* C16: a newline in a run of newlines that starts immediately after the `;`
\* of the content Statement closed last is appended to that Statement's
\* Text, and the pending segment, where the next Statement starts, begins
\* after it; any other newline is appended to nothing; and no step changes
\* the Text of a returned Statement in any other way.
C16_NewlineMerging ==
    [][ /\ (Scanning /\ At(n) = "\n") =>
              IF InRunAfterClose
              THEN /\ result' = [result EXCEPT ![Len(result)].Text = @ \o <<"\n">>]
                   /\ startStatement' = n + 1
              ELSE result' = result
        /\ \A k \in 1..Len(result) :
              result'[k] # result[k] =>
                  /\ Scanning
                  /\ At(n) = "\n"
                  /\ InRunAfterClose
                  /\ k = Len(result)
        /\ startStatement' >= startStatement
        /\ \A k \in (Len(result) + 1)..Len(result') :
              startOf'[k] >= startStatement
      ]_vars

\* `a;\n\n  /* c */ b;\n`: both newlines after `a;` and the one after `b;`
\* are merged.
C16_Witness ==
    /\ pc = "done"
    /\ contents = TwoStatementsText
    /\ result[1].Text = <<"a", ";", "\n", "\n">>
    /\ startOf[2] = 4
    /\ result[Len(result)].Text[Len(result[Len(result)].Text)] = "\n"

\* C18: the `*` that opened a block comment is not the `*` of the `*/`
\* that closes it, and the `/` that closed a block comment is not the `/` of
\* a `/*` that opens the next one; so after `/*/` the block comment is still
\* open, and after `/* a */*` no block comment is open.
C18_DelimitersDisjoint ==
    [][ /\ (Scanning /\ inCComment /\ ~inCComment') => n - 1 # openedAt
        /\ (Scanning /\ ~inCComment /\ inCComment') => n - 1 # closedAt
        /\ (pc' = "done" /\ contents = OpenerOnlyText) => inCComment'
        /\ (pc' = "done" /\ contents = CloserThenStarText) => ~inCComment'
      ]_vars

---------------------------------------------------------------------------
(* More properties of Index.RedundantTo *)

\* C17: a unique index that is not the primary key is RedundantTo only the
\* primary key or a unique index that is Equivalent to it.
C17_UniqueRedundancy ==
    (/\ Called("RedundantTo")
     /\ BothIndexes
     /\ idx.Unique
     /\ ~idx.PrimaryKey
     /\ ret.val)
        => \/ other.PrimaryKey
           \/ other.Unique /\ Equivalent(idx, other)

---------------------------------------------------------------------------
(* dupeIndexChecker *)

\* The greatest number of secondary indexes of a table.
MaxIndexes == 3

Spatial == <<"SPATIAL", "", <<>>>>

\* The secondary indexes of the tables checked: keys on (a), (a,b) and (b),
\* unique or not, visible or not, and a SPATIAL index on (b).
TableIndexes ==
    {Index(FALSE, u, i, BTree, parts) :
        u \in BOOLEAN, i \in BOOLEAN,
        parts \in {<<ColA>>, <<ColA, ColB>>, <<ColB>>}}
    \cup {Index(FALSE, FALSE, i, Spatial, <<ColB>>) : i \in BOOLEAN}

\* table.PrimaryKey: none, or PRIMARY KEY (a), or PRIMARY KEY (a,b)
TablePrimaryKeys ==
    {Nil, Index(TRUE, TRUE, FALSE, BTree, <<ColA>>),
     Index(TRUE, TRUE, FALSE, BTree, <<ColA, ColB>>)}

\* A table: its keys, and for each of its columns whether the column has an
\* SRID attribute (col.HasSpatialReference).
Tables ==
    {[PrimaryKey |-> pk, SecondaryIndexes |-> list,
      HasSpatialReference |-> [a |-> FALSE, b |-> srid]] :
        pk \in TablePrimaryKeys,
        list \in UNION {[1..k -> TableIndexes] : k \in 0..MaxIndexes},
        srid \in BOOLEAN}

\* An index has no name in the model: its position in
\* table.SecondaryIndexes stands for it, "PRIMARY" for the primary key.
DupeNote(dupe, better, equivalent) ==
    [summary |-> "Redundant index detected", dupe |-> dupe,
     better |-> better, equivalent |-> equivalent]

SpatialNote(i, col) ==
    [summary |-> "Spatial index lacks SRID", dupe |-> i, better |-> col,
     equivalent |-> FALSE]

\* if !equivalent || i > j  ("avoid 2 annotations for an equivalent pair")
NotesPair(equivalent, i, j) == ~equivalent \/ i > j

\* The body of the loop over table.SecondaryIndexes, for the index at
\* position i: the notes it appends.
NotesOf(t, i, minMySQL8) ==
    LET list == t.SecondaryIndexes
        index == list[i]
        found == {j \in 1..Len(list) : i # j /\ RedundantTo(index, list[j])}
        j == CHOOSE x \in found : \A y \in found : x <= y
        equivalent == Equivalent(index, list[j])
        dupes == IF found # {} /\ NotesPair(equivalent, i, j)
                 THEN <<DupeNote(i, j, equivalent)>>
                 ELSE <<>>
        lacking == [k \in 1..Len(index.Parts) |->
                       IF /\ index.Parts[k].ColumnName \in {"a", "b"}
                          /\ ~t.HasSpatialReference[index.Parts[k].ColumnName]
                       THEN <<SpatialNote(i, index.Parts[k].ColumnName)>>
                       ELSE <<>>]
        spatial == IF index.Type = "SPATIAL" /\ minMySQL8
                   THEN Flatten(lacking)
                   ELSE <<>>
    IN  IF RedundantTo(index, t.PrimaryKey)
        THEN <<DupeNote(i, "PRIMARY", FALSE)>>
        ELSE dupes \o spatial

\* dupeIndexChecker(table, createStatement, _, opts), where minMySQL8 is
\* opts.flavor.MinMySQL(8)
dupeIndexChecker(t, minMySQL8) ==
    Flatten([i \in 1..Len(t.SecondaryIndexes) |-> NotesOf(t, i, minMySQL8)])

InitDupe ==
    /\ table \in Tables
    /\ results = <<>>
    /\ checked = FALSE
    /\ idx = Nil
    /\ other = Nil
    /\ ret = NoCall
    /\ third = Nil
    /\ ParseIdle
    /\ LisIdle
    /\ TempSchemaIdle

CheckTable ==
    /\ ~checked
    /\ \E minMySQL8 \in BOOLEAN : results' = dupeIndexChecker(table, minMySQL8)
    /\ checked' = TRUE
    /\ UNCHANGED table
    /\ UNCHANGED <<parseVars, indexVars, third, lisVars, wsVars>>

NextDupe == CheckTable

SpecDupe == InitDupe /\ [][NextDupe]_vars

\* The positions of the secondary indexes of the table.
Positions == 1..Len(table.SecondaryIndexes)
Secondary(i) == table.SecondaryIndexes[i]

\* The table has a redundant-index note naming the index at position i.
NotedAsDupe(i) ==
    \E k \in 1..Len(results) :
        results[k].summary = "Redundant index detected" /\ results[k].dupe = i

\* C19: if some secondary index of the table is RedundantTo the primary key
\* or to another secondary index, dupeIndexChecker returns a redundant-index
\* note; and of two Equivalent secondary indexes one is named in a note.
C19_DupeIndexCompleteness ==
    checked =>
        /\ (\E i \in Positions :
               \/ RedundantTo(Secondary(i), table.PrimaryKey)
               \/ \E j \in Positions \ {i} :
                     RedundantTo(Secondary(i), Secondary(j)))
              => \E i \in Positions : NotedAsDupe(i)
        /\ \A i \in Positions : \A j \in Positions \ {i} :
              Equivalent(Secondary(i), Secondary(j))
                  => NotedAsDupe(i) \/ NotedAsDupe(j)

---------------------------------------------------------------------------
(* Chains of Index.RedundantTo *)

PartA1 == Part("a", "", 1, FALSE)

\* The indexes of a table compared three at a time: every combination of
\* the unique flag, the invisible flag, the type and the attribute string,
\* on (a), on the prefix a(1) and on (a,b); and two primary keys.
ChainIndexes ==
    {Index(FALSE, u, i, kind, parts) :
        u \in BOOLEAN, i \in BOOLEAN,
        kind \in {BTree, <<"FULLTEXT", "", <<>>>>, <<"VECTOR", "", <<>>>>,
                  <<"VECTOR", "", AttrDefault>>, <<"VECTOR", "", AttrM8>>},
        parts \in {<<ColA>>, <<PartA1>>, <<ColA, ColB>>}}
    \cup {Index(TRUE, TRUE, FALSE, BTree, parts) :
            parts \in {<<ColA>>, <<ColA, ColB>>}}

InitChain ==
    /\ idx \in ChainIndexes
    /\ other \in ChainIndexes
    /\ third \in ChainIndexes
    /\ ret = NoCall
    /\ ParseIdle
    /\ LisIdle
    /\ TempSchemaIdle
    /\ DupeIdle

\* idx.RedundantTo(other), other.RedundantTo(third), idx.RedundantTo(third)
CallRedundantChain ==
    /\ ret = NoCall
    /\ ret' = [op |-> "RedundantTo chain",
               val |-> <<RedundantTo(idx, other), RedundantTo(other, third),
                         RedundantTo(idx, third)>>]
    /\ UNCHANGED <<idx, other, third>>
    /\ UNCHANGED <<parseVars, lisVars, dupeVars, wsVars>>

NextChain == CallRedundantChain

SpecChain == InitChain /\ [][NextChain]_vars

\* C20: if idx is RedundantTo other and other is RedundantTo third, then idx
\* is RedundantTo third.
C20_RedundantToTransitive ==
    Called("RedundantTo chain") => (ret.val[1] /\ ret.val[2] => ret.val[3])

---------------------------------------------------------------------------
(* NewTempSchema, TempSchema.Cleanup, getLock and releaseLock *)

\* The GET_LOCK queries, of one second each, that fit in getLock's maxWait.
MaxWait == 3

NoError == "nil"

InitTempSchema ==
    /\ wsPc = "getLock"
    /\ lockTx = "nil"
    /\ txOpen = FALSE
    /\ lockHeld = FALSE
    /\ waited = 0
    /\ wsErr = NoError
    /\ hasSchema \in BOOLEAN
    /\ reuseTempSchema \in BOOLEAN
    /\ idx = Nil
    /\ other = Nil
    /\ ret = NoCall
    /\ third = Nil
    /\ ParseIdle
    /\ LisIdle
    /\ DupeIdle

\* return nil, fmt.Errorf(...) in NewTempSchema
NewTempSchemaFails(e) ==
    /\ wsPc' = "NewReturned"
    /\ wsErr' = e

\* getLock: instance.Connect and db.Begin; an error of either is returned
\* through NewTempSchema.
GetLockBegin ==
    /\ wsPc = "getLock"
    /\ \E ok \in BOOLEAN :
          IF ok
          THEN /\ txOpen' = TRUE
               /\ wsPc' = "getLockLoop"
               /\ UNCHANGED wsErr
          ELSE /\ NewTempSchemaFails("Unable to lock temporary schema")
               /\ UNCHANGED txOpen
    /\ UNCHANGED <<lockTx, lockHeld, waited, hasSchema, reuseTempSchema>>
    /\ UNCHANGED <<parseVars, indexVars, third, lisVars, dupeVars>>

\* getLock: one SELECT GET_LOCK(?, 1) of the loop; with the lock got,
\* getLock returns lockTx and NewTempSchema stores it in ts.lockTx.
GetLockQuery ==
    /\ wsPc = "getLockLoop"
    /\ waited < MaxWait
    /\ waited' = waited + 1
    /\ \E got \in BOOLEAN :
          IF got
          THEN /\ lockHeld' = TRUE
               /\ lockTx' = "tx"
               /\ wsPc' = "HasSchema"
          ELSE UNCHANGED <<lockHeld, lockTx, wsPc>>
    /\ UNCHANGED <<txOpen, wsErr, hasSchema, reuseTempSchema>>
    /\ UNCHANGED <<parseVars, indexVars, third, lisVars, dupeVars>>

\* getLock: return nil, errors.New("Unable to acquire lock"); the
\* transaction begun is not rolled back.
GetLockTimeout ==
    /\ wsPc = "getLockLoop"
    /\ waited = MaxWait
    /\ NewTempSchemaFails("Unable to lock temporary schema")
    /\ UNCHANGED <<lockTx, txOpen, lockHeld, waited, hasSchema, reuseTempSchema>>
    /\ UNCHANGED <<parseVars, indexVars, third, lisVars, dupeVars>>

\* instance.HasSchema(tempSchemaName)
HasSchema ==
    /\ wsPc = "HasSchema"
    /\ \E ok \in BOOLEAN :
          IF ok
          THEN /\ wsPc' = IF hasSchema THEN "DropTablesInSchema"
                          ELSE "CreateSchema"
               /\ UNCHANGED wsErr
          ELSE NewTempSchemaFails("Unable to check for existence of temp schema")
    /\ UNCHANGED <<lockTx, txOpen, lockHeld, waited, hasSchema, reuseTempSchema>>
    /\ UNCHANGED <<parseVars, indexVars, third, lisVars, dupeVars>>

\* instance.DropTablesInSchema(tempSchemaName, true), then return ts, nil
DropTablesInSchema ==
    /\ wsPc = "DropTablesInSchema"
    /\ wsPc' = "NewReturned"
    /\ \E ok \in BOOLEAN :
          wsErr' = IF ok THEN NoError
                   ELSE "Cannot drop existing temp schema tables"
    /\ UNCHANGED <<lockTx, txOpen, lockHeld, waited, hasSchema, reuseTempSchema>>
    /\ UNCHANGED <<parseVars, indexVars, third, lisVars, dupeVars>>

\* instance.CreateSchema(tempSchemaName, ...), then return ts, nil
CreateSchema ==
    /\ wsPc = "CreateSchema"
    /\ wsPc' = "NewReturned"
    /\ \E ok \in BOOLEAN :
          /\ wsErr' = IF ok THEN NoError ELSE "Cannot create temporary schema"
          /\ hasSchema' = ok
    /\ UNCHANGED <<lockTx, txOpen, lockHeld, waited, reuseTempSchema>>
    /\ UNCHANGED <<parseVars, indexVars, third, lisVars, dupeVars>>

\* NewTempSchema returned a Workspace and no error.
InUse == wsPc = "NewReturned" /\ wsErr = NoError

\* Cleanup: DropTablesInSchema when reuse-temp-schema is set, DropSchema
\* otherwise; an error of either is returned at once.
CleanupDrop ==
    /\ InUse
    /\ \E ok \in BOOLEAN :
          IF ok
          THEN /\ wsPc' = "releaseLock"
               /\ hasSchema' = reuseTempSchema
               /\ UNCHANGED wsErr
          ELSE /\ wsPc' = "CleanupReturned"
               /\ wsErr' = IF reuseTempSchema
                           THEN "Cannot drop tables in temporary schema"
                           ELSE "Cannot drop temporary schema"
               /\ UNCHANGED hasSchema
    /\ UNCHANGED <<lockTx, txOpen, lockHeld, waited, reuseTempSchema>>
    /\ UNCHANGED <<parseVars, indexVars, third, lisVars, dupeVars>>

\* What releaseLock meets: the lock released and the transaction rolled
\* back; the lock released and Rollback failing; the RELEASE_LOCK query
\* failing with the connection, and so the lock, still there; the connection
\* that held the lock already dropped.
ReleaseOutcomes ==
    {"released", "rollback fails", "query fails", "connection dropped"}

\* Cleanup: err := releaseLock(ts.lockTx, lockName); ts.lockTx = nil;
\* return err
ReleaseLock ==
    /\ wsPc = "releaseLock"
    /\ wsPc' = "CleanupReturned"
    /\ lockTx' = "nil"
    /\ \E outcome \in ReleaseOutcomes :
          /\ lockHeld' = IF outcome = "query fails" THEN lockHeld ELSE FALSE
          /\ txOpen' = IF outcome \in {"released", "rollback fails"}
                       THEN FALSE ELSE txOpen
          /\ wsErr' = CASE outcome = "released" -> NoError
                        [] outcome = "rollback fails" -> "Rollback failed"
                        [] OTHER -> "Failed to release lock"
    /\ UNCHANGED <<waited, hasSchema, reuseTempSchema>>
    /\ UNCHANGED <<parseVars, indexVars, third, lisVars, dupeVars>>

NextTempSchema ==
    \/ GetLockBegin
    \/ GetLockQuery
    \/ GetLockTimeout
    \/ HasSchema
    \/ DropTablesInSchema
    \/ CreateSchema
    \/ CleanupDrop
    \/ ReleaseLock

SpecTempSchema == InitTempSchema /\ [][NextTempSchema]_vars

\* C21: the advisory lock is held only inside NewTempSchema and Cleanup and
\* while a Workspace returned without error is in use: it is not held once
\* NewTempSchema has returned an error, nor once Cleanup has returned.
C21_NoLockLeak ==
    /\ (wsPc = "NewReturned" /\ wsErr # NoError) => ~lockHeld
    /\ wsPc = "CleanupReturned" => ~lockHeld

=============================================================================
